---- MODULE Spec2Model ----
(***************************************************************************)
(* Model of pkg/deployer/deploy.go: Deployer.Deploy and                    *)
(* Deployer.completeConfig.                                                *)
(*                                                                         *)
(* One Deploy call is a sequence of steps, one per statement that calls a  *)
(* collaborator (config loader, event recorder, transformer generator,     *)
(* transformer, manifest generator, deployConfig, commitConfigToStatus).   *)
(* Every collaborator call is appended to calls[p], the call history of    *)
(* the attempt running in process p.                                       *)
(***************************************************************************)
EXTENDS Integers, Sequences, FiniteSets, TLC

\* ---------------------------------------------------------------- bounds
MaxGenerators == 3      \* longest registration list d.generators explored
MaxAttempts   == 2      \* Deploy calls explored in one behaviour
MaxConcGenerators == 2  \* longest registration list explored with two callers

\* ---------------------------------------------------------------- values
Procs == {1, 2}         \* callers that may run Deploy

Nil == "nil"            \* the nil error
\* fmt.Errorf value of completeConfig for an unsupported carrier
NoConfigErr == "SpinnakerService does not reference configMap or secret. No configuration found"
VersionErr == "version not found"       \* error of a failed version lookup
Errs == {"E1", "E2"}                    \* error values a collaborator may return

Absent == "<absent>"                    \* the carrier has no version property
CarrierVersions == {Absent, "1.20.0", "1.21.0"}
OtherVersion == "0.0.0"                 \* a version written by a transformer
Kinds == {"ConfigMap", "Secret", "Other"}
Carriers == [kind : Kinds, version : CarrierVersions]

NoStatus == [Version |-> "", markers |-> <<>>]
InitialStatuses == {[Version |-> "", markers |-> <<>>],
                    [Version |-> "1.19.0", markers |-> <<>>]}
NoBundle == [markers |-> <<>>]
NoCarrier == [kind |-> "Other", version |-> Absent]
NoStore == [by |-> 0, bundle |-> NoBundle, status |-> NoStatus]
AllInputs == [carriers |-> Carriers, errs |-> Errs, attempts |-> MaxAttempts,
              rewrite |-> BOOLEAN]
ConcInputs == [carriers |-> {[kind |-> "ConfigMap", version |-> "1.20.0"],
                             [kind |-> "Secret", version |-> "1.21.0"]},
               errs |-> {"E1"}, attempts |-> 2, rewrite |-> {FALSE}]
FairInputs == [carriers |-> Carriers, errs |-> {"E1"}, attempts |-> MaxAttempts,
               rewrite |-> {FALSE}]
NoPrior == [failed |-> FALSE, persisted |-> FALSE]

VARIABLES
  generators,    \* d.generators: the registration list, <<1, ..., n>>
  svc,           \* the declaration *svc: [Status]
  procs,         \* callers that run Deploy in this behaviour
  attempts,      \* number of Deploy calls started so far
  instances,     \* number of transformer instances constructed so far
  persisted,     \* what deployConfig last wrote
  committed,     \* what commitConfigToStatus last wrote
  pc,            \* position of each caller inside Deploy
  attempt,       \* number of the attempt each caller is running
  config,        \* Deploy's parameter config (the carrier)
  c,             \* local c: the *halconfig.SpinnakerConfig
  v,             \* local v: the version string
  transformers,  \* local transformers: sequence of [gen, inst]
  i,             \* loop index of the loop being run
  l,             \* local l: the generated config (artifact bundle)
  status,        \* local status: which object the pointer designates
  snap,          \* the object made by DeepCopy
  result,        \* value returned by Deploy
  calls,         \* collaborator calls made by the attempt, in order
  inputs,        \* what the behaviour draws from: carriers, collaborator
                 \* errors, number of Deploy calls, whether transformers
                 \* rewrite the version
  prior          \* outcome of the attempt that returned last

shared == <<generators, svc, procs, attempts, instances, persisted, committed,
            inputs, prior>>
vars == <<generators, svc, procs, attempts, instances, persisted, committed,
          pc, attempt, config, c, v, transformers, i, l, status, snap, result, calls,
          inputs, prior>>

\* ------------------------------------------------------------ call history
Call(op, t, inst, err, ver, st, cfg) ==
  [op |-> op, t |-> t, inst |-> inst, err |-> err, ver |-> ver, st |-> st, cfg |-> cfg]

\* halconfig.NewSpinnakerConfig(): an empty configuration
NewSpinnakerConfig == [version |-> Absent, markers |-> <<>>]

\* hc.FromConfigMap(cm): the configuration held by a config map
FromConfigMap(cm) == [version |-> cm.version, markers |-> <<>>]

\* hc.FromSecret(sec): the configuration held by a secret
FromSecret(sec) == [version |-> sec.version, markers |-> <<>>]

\* variant of completeConfig that reports no error for an unsupported carrier
completeConfigOtherOk(cfg, loadErr) ==
  IF cfg.kind = "ConfigMap"
    THEN [hc |-> IF loadErr = Nil THEN FromConfigMap(cfg) ELSE NewSpinnakerConfig,
          err |-> loadErr, loader |-> "FromConfigMap"]
  ELSE IF cfg.kind = "Secret"
    THEN [hc |-> IF loadErr = Nil THEN FromSecret(cfg) ELSE NewSpinnakerConfig,
          err |-> loadErr, loader |-> "FromSecret"]
  ELSE [hc |-> NewSpinnakerConfig, err |-> Nil, loader |-> "none"]

\* variant of completeConfig that lacks the secret branch
completeConfigNoSecret(cfg, loadErr) ==
  IF cfg.kind = "ConfigMap"
    THEN [hc |-> IF loadErr = Nil THEN FromConfigMap(cfg) ELSE NewSpinnakerConfig,
          err |-> loadErr, loader |-> "FromConfigMap"]
  ELSE [hc |-> NewSpinnakerConfig, err |-> NoConfigErr, loader |-> "none"]

\* completeConfig(svc, config) (l.105-118); loadErr is what the loader returns
\* if it is called
completeConfig(cfg, loadErr) ==
  IF cfg.kind = "ConfigMap"
    THEN [hc |-> IF loadErr = Nil THEN FromConfigMap(cfg) ELSE NewSpinnakerConfig,
          err |-> loadErr, loader |-> "FromConfigMap"]
  ELSE IF cfg.kind = "Secret"
    THEN [hc |-> IF loadErr = Nil THEN FromSecret(cfg) ELSE NewSpinnakerConfig,
          err |-> loadErr, loader |-> "FromSecret"]
  ELSE [hc |-> NewSpinnakerConfig, err |-> NoConfigErr, loader |-> "none"]

\* c.GetHalConfigPropString("version")
GetHalConfigPropString(hc) ==
  IF hc.version = Absent THEN [v |-> "", err |-> VersionErr]
                         ELSE [v |-> hc.version, err |-> Nil]

\* variant of ReturnErr that hides the error of the failed step
WrappedErr(err) == "deploy failed"

\* `return err`: the value Deploy hands back for a failed step
ReturnErr(err) == err

\* variant of AfterCompleteConfig that ignores the error
AfterCompleteConfigIgnore(err) == "getVersion"

\* if err != nil { return err } after completeConfig (l.52-54)
AfterCompleteConfig(err) == IF err # Nil THEN "done" ELSE "getVersion"

\* variant of AfterVersion that returns on a failed version lookup
AfterVersionAbort(err) == IF err # Nil THEN "done" ELSE "event1"

\* if err != nil { rLogger.Info(...) } after the version lookup (l.57-59):
\* the error is logged and Deploy goes on
AfterVersion(err) == "event1"

\* head of `for _, t := range d.generators` (l.66); k generators handled
ForwardLoop(k, n) == IF k < n THEN "newTransformer" ELSE "generate"

\* variant of AfterNewTransformer that ignores the error
AfterNewTransformerIgnore(err) == "transformConfig"

\* if err != nil { return err } after NewTransformer (l.68-71)
AfterNewTransformer(err) == IF err # Nil THEN "done" ELSE "transformConfig"

\* variant of AfterTransformConfig that ignores the error
AfterTransformConfigIgnore(err, k, n) == ForwardLoop(k, n)

\* if err = tr.TransformConfig(c); err != nil { return err } (l.72-75)
AfterTransformConfig(err, k, n) == IF err # Nil THEN "done" ELSE ForwardLoop(k, n)

\* variant of AfterGenerate that calls the generator again after an error
AfterGenerateRetry(err) == IF err # Nil THEN "generate" ELSE "deepCopy"

\* variant of AfterGenerate that ignores the error
AfterGenerateIgnore(err) == "deepCopy"

\* if err != nil { return err } after Generate (l.79-81)
AfterGenerate(err) == IF err # Nil THEN "done" ELSE "deepCopy"

\* variant of ReverseLoop that leaves the loop one transformer early
ReverseLoopShort(k, n) == IF k < n - 1 THEN "transformManifests" ELSE "deployConfig"

\* head of `for i := range transformers` (l.86)
ReverseLoop(k, n) == IF k < n THEN "transformManifests" ELSE "deployConfig"

\* variant of ReverseIndex that walks the list forwards
ForwardIndex(len, k) == k + 1

\* variant of ReverseIndex that forgets the loop index
LastIndex(len, k) == len

\* transformers[len(transformers)-i-1] (l.87), as a 1-based position
ReverseIndex(len, k) == (len - k - 1) + 1

\* variant of AfterTransformManifests that ignores the error
AfterTransformManifestsIgnore(err, k, n) == ReverseLoop(k, n)

\* if err = ...TransformManifests(...); err != nil { return err } (l.87-89)
AfterTransformManifests(err, k, n) == IF err # Nil THEN "done" ELSE ReverseLoop(k, n)

\* variant of AfterDeployConfig that ignores the error
AfterDeployConfigIgnore(err) == "event2"

\* if err = d.deployConfig(...); err != nil { return err } (l.93-95)
AfterDeployConfig(err) == IF err # Nil THEN "done" ELSE "event2"

\* variant of DeepCopy that hands back the declaration's own status object
Alias(s) == [ref |-> "svc", obj |-> s]

\* svc.Status.DeepCopy() (l.84): a new object holding a copy of s
DeepCopy(s) == [ref |-> "copy", obj |-> s]

\* the object the local pointer `status` designates
Deref(p) == IF status[p] = "svc" THEN svc.Status ELSE snap[p]

\* variant of StampVersion that leaves the version as the reverse pass left it
NoStamp(st, ver) == st

\* status.Version = v (l.99)
StampVersion(st, ver) == [st EXCEPT !.Version = ver]

\* ------------------------------------------------------------------- Init
InitWith(P, In, N) ==
  /\ generators \in {[k \in 1..n |-> k] : n \in N}
  /\ inputs = In
  /\ prior = NoPrior
  /\ svc \in [Status : InitialStatuses]
  /\ procs = P
  /\ attempts = 0
  /\ instances = 0
  /\ persisted = NoStore
  /\ committed = NoStore
  /\ pc = [p \in Procs |-> "idle"]
  /\ attempt = [p \in Procs |-> 0]
  /\ config = [p \in Procs |-> NoCarrier]
  /\ c = [p \in Procs |-> NewSpinnakerConfig]
  /\ v = [p \in Procs |-> ""]
  /\ transformers = [p \in Procs |-> <<>>]
  /\ i = [p \in Procs |-> 0]
  /\ l = [p \in Procs |-> NoBundle]
  /\ status = [p \in Procs |-> "nil"]
  /\ snap = [p \in Procs |-> NoStatus]
  /\ result = [p \in Procs |-> Nil]
  /\ calls = [p \in Procs |-> <<>>]

Init == InitWith({1}, AllInputs, 0..MaxGenerators)

\* ---------------------------------------------------------------- actions
Log(p, call) == calls' = [calls EXCEPT ![p] = Append(@, call)]

\* writes through the local pointer `status`
StatusWrite(p, st) ==
  IF status[p] = "svc"
    THEN svc' = [svc EXCEPT !.Status = st] /\ UNCHANGED snap
    ELSE snap' = [snap EXCEPT ![p] = st] /\ UNCHANGED svc

\* Deploy is entered; c, err := d.completeConfig(svc, config) (l.47-54)
Deploy(p) ==
  /\ pc[p] = "idle"
  /\ attempts < inputs.attempts
  /\ \E cfg \in inputs.carriers, loadErr \in {Nil} \cup inputs.errs :
       LET r == completeConfig(cfg, loadErr) IN
       /\ r.loader = "none" => loadErr = Nil
       /\ config' = [config EXCEPT ![p] = cfg]
       /\ c' = [c EXCEPT ![p] = r.hc]
       /\ calls' = [calls EXCEPT ![p] =
            IF r.loader = "none" THEN <<>>
            ELSE <<Call(r.loader, 0, 0, r.err, "", NoStatus, r.hc)>>]
       /\ pc' = [pc EXCEPT ![p] = AfterCompleteConfig(r.err)]
       /\ result' = [result EXCEPT ![p] = IF r.err # Nil THEN ReturnErr(r.err) ELSE Nil]
  /\ attempts' = attempts + 1
  /\ attempt' = [attempt EXCEPT ![p] = attempts + 1]
  /\ UNCHANGED <<generators, svc, procs, inputs, prior, instances, persisted, committed,
                 v, transformers, i, l, status, snap>>

\* v, err := c.GetHalConfigPropString("version") (l.56-59)
ReadVersion(p) ==
  /\ pc[p] = "getVersion"
  /\ LET r == GetHalConfigPropString(c[p]) IN
       /\ v' = [v EXCEPT ![p] = r.v]
       /\ Log(p, Call("GetHalConfigPropString", 0, 0, r.err, r.v, NoStatus, c[p]))
       /\ pc' = [pc EXCEPT ![p] = AfterVersion(r.err)]
       /\ result' = [result EXCEPT ![p] =
            IF AfterVersion(r.err) = "done" THEN ReturnErr(r.err) ELSE Nil]
  /\ UNCHANGED <<shared, attempt, config, c, transformers, i, l, status, snap>>

\* d.evtRecorder.Eventf(... "New configuration detected, version: %s", v);
\* transformers := []Transformer{} (l.61-66)
EventDetected(p) ==
  /\ pc[p] = "event1"
  /\ Log(p, Call("EventDetected", 0, 0, Nil, v[p], NoStatus, NewSpinnakerConfig))
  /\ transformers' = [transformers EXCEPT ![p] = <<>>]
  /\ i' = [i EXCEPT ![p] = 0]
  /\ pc' = [pc EXCEPT ![p] = ForwardLoop(0, Len(generators))]
  /\ UNCHANGED <<shared, attempt, config, c, v, l, status, snap, result>>

\* tr, err := t.NewTransformer(*svc, d.client);
\* transformers = append(transformers, tr) (l.67-71)
NewTransformer(p) ==
  /\ pc[p] = "newTransformer"
  /\ \E err \in {Nil} \cup inputs.errs :
       LET t == generators[i[p] + 1]
           inst == IF err = Nil THEN instances + 1 ELSE 0 IN
       /\ Log(p, Call("NewTransformer", t, inst, err, "", NoStatus, NewSpinnakerConfig))
       /\ instances' = IF err = Nil THEN instances + 1 ELSE instances
       /\ transformers' = [transformers EXCEPT ![p] =
            IF AfterNewTransformer(err) = "done" THEN @
            ELSE Append(@, [gen |-> t, inst |-> inst])]
       /\ pc' = [pc EXCEPT ![p] = AfterNewTransformer(err)]
       /\ result' = [result EXCEPT ![p] =
            IF AfterNewTransformer(err) = "done" THEN ReturnErr(err) ELSE Nil]
  /\ UNCHANGED <<generators, svc, procs, inputs, prior, attempts, persisted, committed,
                 attempt, config, c, v, i, l, status, snap>>

\* err = tr.TransformConfig(c) (l.72-75); a successful call leaves its marker
\* in c and may rewrite the version property
TransformConfig(p) ==
  /\ pc[p] = "transformConfig"
  /\ \E err \in {Nil} \cup inputs.errs, setv \in inputs.rewrite :
       LET tr == transformers[p][Len(transformers[p])] IN
       /\ err # Nil => ~setv
       /\ Log(p, Call("TransformConfig", tr.gen, tr.inst, err, "", NoStatus, c[p]))
       /\ c' = [c EXCEPT ![p] =
            IF err # Nil THEN @
            ELSE [version |-> IF setv THEN OtherVersion ELSE @.version,
                  markers |-> Append(@.markers, tr.gen)]]
       /\ i' = [i EXCEPT ![p] = @ + 1]
       /\ pc' = [pc EXCEPT ![p] = AfterTransformConfig(err, i[p] + 1, Len(generators))]
       /\ result' = [result EXCEPT ![p] =
            IF AfterTransformConfig(err, i[p] + 1, Len(generators)) = "done"
              THEN ReturnErr(err) ELSE Nil]
  /\ UNCHANGED <<shared, attempt, config, v, transformers, l, status, snap>>

\* l, err := d.m.Generate(c) (l.78-81)
Generate(p) ==
  /\ pc[p] = "generate"
  /\ \E err \in {Nil} \cup inputs.errs :
       /\ Log(p, Call("Generate", 0, 0, err, "", NoStatus, c[p]))
       /\ l' = [l EXCEPT ![p] = NoBundle]
       /\ pc' = [pc EXCEPT ![p] = AfterGenerate(err)]
       /\ result' = [result EXCEPT ![p] =
            IF AfterGenerate(err) = "done" THEN ReturnErr(err) ELSE Nil]
  /\ UNCHANGED <<shared, attempt, config, c, v, transformers, i, status, snap>>

\* status := svc.Status.DeepCopy() (l.84-86)
CopyStatus(p) ==
  /\ pc[p] = "deepCopy"
  /\ LET r == DeepCopy(svc.Status) IN
       /\ status' = [status EXCEPT ![p] = r.ref]
       /\ snap' = [snap EXCEPT ![p] = IF r.ref = "copy" THEN r.obj ELSE @]
  /\ i' = [i EXCEPT ![p] = 0]
  /\ pc' = [pc EXCEPT ![p] = ReverseLoop(0, Len(transformers[p]))]
  /\ UNCHANGED <<shared, attempt, config, c, v, transformers, l, result, calls>>

\* err = transformers[len(transformers)-i-1].TransformManifests(scheme, c, l, status)
\* (l.86-90); a successful call leaves its marker in l and in *status and may
\* rewrite the status version
TransformManifests(p) ==
  /\ pc[p] = "transformManifests"
  /\ \E err \in {Nil} \cup inputs.errs, setv \in inputs.rewrite :
       LET tr == transformers[p][ReverseIndex(Len(transformers[p]), i[p])]
           st == Deref(p) IN
       /\ err # Nil => ~setv
       /\ Log(p, Call("TransformManifests", tr.gen, tr.inst, err, "", st, c[p]))
       /\ l' = [l EXCEPT ![p] =
            IF err # Nil THEN @ ELSE [markers |-> Append(@.markers, tr.gen)]]
       /\ IF err # Nil THEN UNCHANGED <<svc, snap>>
          ELSE StatusWrite(p, [Version |-> IF setv THEN OtherVersion ELSE st.Version,
                               markers |-> Append(st.markers, tr.gen)])
       /\ i' = [i EXCEPT ![p] = @ + 1]
       /\ pc' = [pc EXCEPT ![p] =
            AfterTransformManifests(err, i[p] + 1, Len(transformers[p]))]
       /\ result' = [result EXCEPT ![p] =
            IF AfterTransformManifests(err, i[p] + 1, Len(transformers[p])) = "done"
              THEN ReturnErr(err) ELSE Nil]
  /\ UNCHANGED <<generators, procs, inputs, prior, attempts, instances, persisted, committed,
                 attempt, config, c, v, transformers, status>>

\* err = d.deployConfig(ctx, scheme, l, status, rLogger) (l.93-95)
DeployConfig(p) ==
  /\ pc[p] = "deployConfig"
  /\ \E err \in {Nil} \cup inputs.errs :
       /\ Log(p, Call("deployConfig", 0, 0, err, "", Deref(p), NewSpinnakerConfig))
       /\ persisted' = IF err # Nil THEN persisted
                       ELSE [by |-> attempt[p], bundle |-> l[p], status |-> Deref(p)]
       /\ pc' = [pc EXCEPT ![p] = AfterDeployConfig(err)]
       /\ result' = [result EXCEPT ![p] =
            IF AfterDeployConfig(err) = "done" THEN ReturnErr(err) ELSE Nil]
  /\ UNCHANGED <<generators, svc, procs, inputs, prior, attempts, instances, committed,
                 attempt, config, c, v, transformers, i, l, status, snap>>

\* d.evtRecorder.Eventf(... "Spinnaker version %s deployment set", v) (l.97)
EventSet(p) ==
  /\ pc[p] = "event2"
  /\ Log(p, Call("EventSet", 0, 0, Nil, v[p], NoStatus, NewSpinnakerConfig))
  /\ pc' = [pc EXCEPT ![p] = "stamp"]
  /\ UNCHANGED <<shared, attempt, config, c, v, transformers, i, l, status, snap, result>>

\* status.Version = v (l.99)
Stamp(p) ==
  /\ pc[p] = "stamp"
  /\ StatusWrite(p, StampVersion(Deref(p), v[p]))
  /\ pc' = [pc EXCEPT ![p] = "commit"]
  /\ UNCHANGED <<generators, procs, inputs, prior, attempts, instances, persisted, committed,
                 attempt, config, c, v, transformers, i, l, status, result, calls>>

\* return d.commitConfigToStatus(ctx, svc, status, config) (l.101)
CommitStatus(p) ==
  /\ pc[p] = "commit"
  /\ \E err \in {Nil} \cup inputs.errs :
       /\ Log(p, Call("commitConfigToStatus", 0, 0, err, "", Deref(p), NewSpinnakerConfig))
       /\ committed' = IF err # Nil THEN committed
                       ELSE [by |-> attempt[p], bundle |-> NoBundle, status |-> Deref(p)]
       /\ pc' = [pc EXCEPT ![p] = "done"]
       /\ result' = [result EXCEPT ![p] = ReturnErr(err)]
  /\ UNCHANGED <<generators, svc, procs, inputs, prior, attempts, instances, persisted,
                 attempt, config, c, v, transformers, i, l, status, snap>>

\* Deploy has returned; its locals are gone and the caller may call again
Return(p) ==
  /\ pc[p] = "done"
  /\ pc' = [pc EXCEPT ![p] = "idle"]
  /\ config' = [config EXCEPT ![p] = NoCarrier]
  /\ c' = [c EXCEPT ![p] = NewSpinnakerConfig]
  /\ v' = [v EXCEPT ![p] = ""]
  /\ transformers' = [transformers EXCEPT ![p] = <<>>]
  /\ i' = [i EXCEPT ![p] = 0]
  /\ l' = [l EXCEPT ![p] = NoBundle]
  /\ status' = [status EXCEPT ![p] = "nil"]
  /\ snap' = [snap EXCEPT ![p] = NoStatus]
  /\ result' = [result EXCEPT ![p] = Nil]
  /\ calls' = [calls EXCEPT ![p] = <<>>]
  /\ prior' = [failed |-> result[p] # Nil, persisted |-> persisted.by = attempt[p]]
  /\ UNCHANGED <<generators, svc, procs, attempts, instances, persisted, committed,
                 inputs, attempt>>

Next ==
  \/ \E p \in procs : Deploy(p)
  \/ \E p \in procs : ReadVersion(p)
  \/ \E p \in procs : EventDetected(p)
  \/ \E p \in procs : NewTransformer(p)
  \/ \E p \in procs : TransformConfig(p)
  \/ \E p \in procs : Generate(p)
  \/ \E p \in procs : CopyStatus(p)
  \/ \E p \in procs : TransformManifests(p)
  \/ \E p \in procs : DeployConfig(p)
  \/ \E p \in procs : EventSet(p)
  \/ \E p \in procs : Stamp(p)
  \/ \E p \in procs : CommitStatus(p)
  \/ \E p \in procs : Return(p)

Spec == Init /\ [][Next]_vars

\* every collaborator call returns: a caller inside Deploy takes its next step
Step(p) ==
  \/ ReadVersion(p)
  \/ EventDetected(p)
  \/ NewTransformer(p)
  \/ TransformConfig(p)
  \/ Generate(p)
  \/ CopyStatus(p)
  \/ TransformManifests(p)
  \/ DeployConfig(p)
  \/ EventSet(p)
  \/ Stamp(p)
  \/ CommitStatus(p)

InitFair == InitWith({1}, FairInputs, 0..MaxGenerators)

SpecFair == InitFair /\ [][Next]_vars /\ \A p \in Procs : WF_vars(Step(p))

\* two callers run Deploy for the same service with nothing to serialize them
InitConc == InitWith({1, 2}, ConcInputs, 1..MaxConcGenerators)

SpecConc == InitConc /\ [][Next]_vars

\* ------------------------------------------------ reading the call history
Ops(p, op) == SelectSeq(calls[p], LAMBDA e : e.op = op)
Gens(s) == [k \in 1..Len(s) |-> s[k].t]
Rev(s) == [k \in 1..Len(s) |-> s[Len(s) - k + 1]]
IsPrefix(s, t) == Len(s) <= Len(t) /\ s = SubSeq(t, 1, Len(s))
OkCalls(p, op) == SelectSeq(calls[p], LAMBDA e : e.op = op /\ e.err = Nil)
Called(p, op) == Len(Ops(p, op)) > 0
LastCall(p) == calls[p][Len(calls[p])]
Loaders == {"FromConfigMap", "FromSecret"}
Resolved(p) == \E j \in 1..Len(calls[p]) : calls[p][j].op \in Loaders /\ calls[p][j].err = Nil
\* the version of the configuration as resolved from the carrier of the attempt
CarrierVersion(p) ==
  GetHalConfigPropString(IF config[p].kind = "Secret" THEN FromSecret(config[p])
                         ELSE FromConfigMap(config[p])).v
Min(S) == CHOOSE x \in S : \A y \in S : x <= y
Done(p) == pc[p] = "done"

\* C1: the transform-configuration calls of an attempt are made in registration
\* order T1..Tn and its transform-manifests calls in the exact reverse order
\* Tn..T1; in a successful attempt both sequences have length n.
C1_TransformOrder ==
  \A p \in procs :
    /\ IsPrefix(Gens(Ops(p, "TransformConfig")), generators)
    /\ IsPrefix(Gens(Ops(p, "TransformManifests")), Rev(generators))
    /\ (Done(p) /\ result[p] = Nil) =>
         /\ Len(Ops(p, "TransformConfig")) = Len(generators)
         /\ Len(Ops(p, "TransformManifests")) = Len(generators)

C1_Witness ==
  \E p \in procs :
    /\ Done(p) /\ result[p] = Nil
    /\ Len(generators) >= 3
    /\ Gens(Ops(p, "TransformManifests")) = Rev(generators)
    /\ Gens(Ops(p, "TransformConfig")) = generators

\* C2: commitStatus is called in an attempt iff config resolution, all n
\* forward transforms, generation, all n reverse transforms and persistence
\* succeeded in it; it is called at most once and is the last call made.
AllSucceeded(p) ==
  /\ Resolved(p)
  /\ Len(OkCalls(p, "TransformConfig")) = Len(generators)
  /\ Len(OkCalls(p, "Generate")) = 1
  /\ Len(OkCalls(p, "TransformManifests")) = Len(generators)
  /\ Len(OkCalls(p, "deployConfig")) = 1

C2_CommitIffAllSucceeded ==
  \A p \in procs :
    /\ Len(Ops(p, "commitConfigToStatus")) <= 1
    /\ Called(p, "commitConfigToStatus") =>
         /\ LastCall(p).op = "commitConfigToStatus"
         /\ Done(p)
         /\ AllSucceeded(p)
    /\ (Done(p) /\ AllSucceeded(p)) => Called(p, "commitConfigToStatus")
    /\ committed.by = attempt[p] /\ attempt[p] > 0 /\ pc[p] # "idle" =>
         Called(p, "commitConfigToStatus")

C2_Witness ==
  \E p \in procs :
    /\ Done(p) /\ Called(p, "commitConfigToStatus") /\ Len(generators) >= 2
    /\ committed.by = attempt[p]

\* C3: when the transform-configuration call of Tk fails, no later transformer
\* receives a transform-configuration call, the generator is not invoked, no
\* transform-manifests call is made, nothing is persisted and nothing committed.
C3_ForwardFailureAborts ==
  \A p \in procs : \A j \in 1..Len(calls[p]) :
    (calls[p][j].op = "TransformConfig" /\ calls[p][j].err # Nil) =>
      /\ \A m \in 1..Len(calls[p]) :
           calls[p][m].op = "TransformConfig" => calls[p][m].t <= calls[p][j].t
      /\ ~Called(p, "Generate")
      /\ ~Called(p, "TransformManifests")
      /\ ~Called(p, "deployConfig")
      /\ ~Called(p, "commitConfigToStatus")
      /\ persisted.by # attempt[p]
      /\ committed.by # attempt[p]
      /\ Done(p) /\ j = Len(calls[p])

C3_Witness ==
  \E p \in procs :
    /\ Done(p) /\ Len(calls[p]) > 0
    /\ LastCall(p).op = "TransformConfig" /\ LastCall(p).err # Nil
    /\ LastCall(p).t = 2 /\ Len(generators) >= 3

\* C4: when the transform-manifests call of Tk fails, the transformers with
\* index > k have had their transform-manifests call and their effects are in
\* the bundle and the snapshot, those with index < k get no such call, and
\* nothing is persisted or committed.
Seq_(a, b) == [k \in 1..(a - b + 1) |-> a - k + 1]

C4_ReverseFailureAborts ==
  \A p \in procs : \A j \in 1..Len(calls[p]) :
    (calls[p][j].op = "TransformManifests" /\ calls[p][j].err # Nil) =>
      LET k == calls[p][j].t
          n == Len(generators) IN
      /\ Gens(OkCalls(p, "TransformManifests")) = Seq_(n, k + 1)
      /\ Gens(Ops(p, "TransformManifests")) = Seq_(n, k)
      /\ l[p].markers = Seq_(n, k + 1)
      /\ snap[p].markers = svc.Status.markers \o Seq_(n, k + 1)
      /\ ~Called(p, "deployConfig")
      /\ ~Called(p, "commitConfigToStatus")
      /\ persisted.by # attempt[p]
      /\ committed.by # attempt[p]
      /\ Done(p)

C4_Witness ==
  \E p \in procs :
    /\ Done(p) /\ Len(calls[p]) > 0
    /\ LastCall(p).op = "TransformManifests" /\ LastCall(p).err # Nil
    /\ LastCall(p).t = 2 /\ Len(generators) >= 3
    /\ l[p].markers = <<Len(generators)>> \o Seq_(Len(generators) - 1, 3)

\* C5: with a carrier that is neither a config map nor a secret the attempt
\* fails at config resolution: no loader is called, no transformer is
\* constructed, no event is emitted, nothing is generated, persisted or committed.
C5_UnsupportedCarrier ==
  \A p \in procs :
    (pc[p] # "idle" /\ config[p].kind \notin {"ConfigMap", "Secret"}) =>
      /\ Done(p)
      /\ result[p] = NoConfigErr
      /\ calls[p] = <<>>
      /\ transformers[p] = <<>>
      /\ persisted.by # attempt[p]
      /\ committed.by # attempt[p]

C5_Witness ==
  \E p \in procs : Done(p) /\ config[p].kind = "Other" /\ result[p] = NoConfigErr

\* C6: Deploy never modifies the declaration's status: no step of an attempt,
\* failed or not, changes svc.Status; transformers and the version stamp act
\* on the deep copy only.
C6_DeclarationStatusUntouched == [][svc'.Status = svc.Status]_vars

C6_Witness ==
  \E p \in procs :
    /\ Done(p) /\ result[p] \in Errs
    /\ LastCall(p).op = "commitConfigToStatus"
    /\ persisted.by = attempt[p]
    /\ status[p] = "copy"
    /\ snap[p].Version # svc.Status.Version
    /\ snap[p].markers # svc.Status.markers

\* C7 as stated: every transformer is constructed before any
\* transform-configuration call, so an attempt aborted by a failed construction
\* has made no transform-configuration call and its config is as resolved.
C7_ConstructionBeforeForwardPass ==
  \A p \in procs :
    /\ \A j, k \in 1..Len(calls[p]) :
         (calls[p][j].op = "NewTransformer" /\ calls[p][k].op = "TransformConfig")
           => j < k
    /\ (Len(calls[p]) > 0 /\ LastCall(p).op = "NewTransformer" /\ LastCall(p).err # Nil) =>
         /\ ~Called(p, "TransformConfig")
         /\ c[p] = (IF config[p].kind = "Secret" THEN FromSecret(config[p])
                    ELSE FromConfigMap(config[p]))

\* C7 amended: construction is interleaved with the forward pass. Tk is
\* constructed after the transform-configuration calls of T1..Tk-1 have
\* succeeded and right before its own; an attempt aborted by a failed
\* construction of Tk has made exactly the transform-configuration calls of
\* T1..Tk-1 and its config carries their mutations.
C7_ConstructionInterleaved ==
  \A p \in procs : \A j \in 1..Len(calls[p]) :
    calls[p][j].op = "NewTransformer" =>
      LET k == calls[p][j].t
          before == [calls EXCEPT ![p] = SubSeq(calls[p], 1, j - 1)]
          fwd == SelectSeq(before[p], LAMBDA e : e.op = "TransformConfig") IN
      /\ Gens(fwd) = SubSeq(generators, 1, k - 1)
      /\ \A m \in 1..Len(fwd) : fwd[m].err = Nil
      /\ Gens(SelectSeq(before[p], LAMBDA e : e.op = "NewTransformer"))
           = SubSeq(generators, 1, k - 1)
      /\ (calls[p][j].err = Nil /\ j < Len(calls[p])) =>
           /\ calls[p][j + 1].op = "TransformConfig"
           /\ calls[p][j + 1].t = k
      /\ (calls[p][j].err = Nil /\ j = Len(calls[p])) => pc[p] = "transformConfig"
      /\ calls[p][j].err # Nil =>
           /\ j = Len(calls[p])
           /\ Done(p)
           /\ Gens(Ops(p, "TransformConfig")) = SubSeq(generators, 1, k - 1)
           /\ c[p].markers = SubSeq(generators, 1, k - 1)

C7_Witness ==
  \E p \in procs :
    /\ Done(p) /\ Len(calls[p]) > 0
    /\ LastCall(p).op = "NewTransformer" /\ LastCall(p).err # Nil
    /\ LastCall(p).t = 3
    /\ c[p].markers = <<1, 2>>

\* C8: a failed version read is not fatal: v is empty, the attempt goes on,
\* both events are emitted (with the empty version) when their steps are
\* reached, and if every other step succeeds commitStatus is called with a
\* status whose version is the empty string.
VersionReadFailed(p) ==
  \E j \in 1..Len(calls[p]) :
    calls[p][j].op = "GetHalConfigPropString" /\ calls[p][j].err # Nil

C8_VersionReadNotFatal ==
  \A p \in procs :
    VersionReadFailed(p) =>
      /\ v[p] = ""
      /\ result[p] # VersionErr
      /\ pc[p] # "event1" =>
           /\ Len(Ops(p, "EventDetected")) = 1
           /\ Ops(p, "EventDetected")[1].ver = ""
      /\ (Len(OkCalls(p, "deployConfig")) = 1 /\ pc[p] # "event2") =>
           /\ Len(Ops(p, "EventSet")) = 1
           /\ Ops(p, "EventSet")[1].ver = ""
      /\ Called(p, "commitConfigToStatus") =>
           Ops(p, "commitConfigToStatus")[1].st.Version = ""
      /\ (Done(p) /\ AllSucceeded(p)) =>
           /\ Called(p, "commitConfigToStatus")
           /\ result[p] = LastCall(p).err

C8_Witness ==
  \E p \in procs :
    /\ VersionReadFailed(p) /\ Done(p) /\ result[p] = Nil
    /\ committed.by = attempt[p]
    /\ committed.status.Version = ""
    /\ svc.Status.Version # ""
    /\ Len(generators) >= 1

\* C9: the status handed to commitStatus is the snapshot as the reverse pass
\* left it (the one handed to persistence) with its version set to the
\* version read from the resolved config before any transformer ran, whatever
\* transformers did to the config or to the snapshot's version.
C9_CommittedStatusStamped ==
  \A p \in procs :
    Called(p, "commitConfigToStatus") =>
      LET arg == Ops(p, "commitConfigToStatus")[1].st
          left == Ops(p, "deployConfig")[1].st IN
      /\ arg = [left EXCEPT !.Version = CarrierVersion(p)]
      /\ arg.markers = svc.Status.markers \o Rev(generators)
      /\ config[p].version = "1.20.0" => arg.Version = "1.20.0"
      /\ LastCall(p).err = Nil => committed.status = arg

C9_Witness ==
  \E p \in procs :
    /\ Done(p) /\ result[p] = Nil /\ committed.by = attempt[p]
    /\ config[p].version = "1.20.0"
    /\ committed.status.Version = "1.20.0"
    /\ c[p].version = OtherVersion
    /\ Ops(p, "deployConfig")[1].st.Version = OtherVersion

\* C10: Deploy returns exactly the error of the first failing step, and nil
\* only if no step other than the version read failed; the error of the
\* version read is never returned.
FailedSteps(p) ==
  {j \in 1..Len(calls[p]) :
     calls[p][j].err # Nil /\ calls[p][j].op # "GetHalConfigPropString"}

C10_FirstErrorReturned ==
  \A p \in procs :
    Done(p) =>
      /\ result[p] # VersionErr
      /\ IF config[p].kind \notin {"ConfigMap", "Secret"}
           THEN result[p] = NoConfigErr
         ELSE IF FailedSteps(p) = {}
           THEN result[p] = Nil
         ELSE result[p] = calls[p][Min(FailedSteps(p))].err

C10_Witness ==
  \E p \in procs :
    /\ Done(p) /\ VersionReadFailed(p)
    /\ result[p] = "E2"
    /\ LastCall(p).op = "TransformManifests"

\* C11: within an attempt every constructed transformer instance gets at most
\* one transform-configuration call and at most one transform-manifests call
\* (exactly one of each in a successful attempt), and no transform-manifests
\* call is made before the transform-configuration calls of all n
\* transformers have succeeded.
Constructed(p) ==
  {calls[p][j].inst : j \in {m \in 1..Len(calls[p]) :
      calls[p][m].op = "NewTransformer" /\ calls[p][m].err = Nil}}
CallsOn(p, op, inst) == SelectSeq(calls[p], LAMBDA e : e.op = op /\ e.inst = inst)
OkBefore(p, op, j) ==
  Cardinality({m \in 1..(j - 1) : calls[p][m].op = op /\ calls[p][m].err = Nil})

C11_OneCallPerInstance ==
  \A p \in procs :
    /\ \A x \in Constructed(p) :
         /\ Len(CallsOn(p, "TransformConfig", x)) <= 1
         /\ Len(CallsOn(p, "TransformManifests", x)) <= 1
         /\ (Done(p) /\ result[p] = Nil) =>
              /\ Len(CallsOn(p, "TransformConfig", x)) = 1
              /\ Len(CallsOn(p, "TransformManifests", x)) = 1
    /\ (Done(p) /\ result[p] = Nil) => Cardinality(Constructed(p)) = Len(generators)
    /\ \A j \in 1..Len(calls[p]) :
         calls[p][j].op \in {"TransformConfig", "TransformManifests"} =>
           calls[p][j].inst \in Constructed(p)
    /\ \A j \in 1..Len(calls[p]) :
         calls[p][j].op = "TransformManifests" =>
           OkBefore(p, "TransformConfig", j) = Len(generators)

C11_Witness ==
  \E p \in procs :
    /\ Done(p) /\ result[p] = Nil /\ Len(generators) >= 2
    /\ Cardinality(Constructed(p)) = Len(generators)
    /\ \A x \in Constructed(p) :
         Len(CallsOn(p, "TransformConfig", x)) = 1
           /\ Len(CallsOn(p, "TransformManifests", x)) = 1

\* C12: completeConfig calls the loader of a supported carrier (config map,
\* secret) and, when the loader succeeds, returns a config holding the
\* carrier's content; a loader error is returned as the failure; for any other
\* carrier it fails with the configuration-resolution error without calling a
\* loader and without touching the declaration.
LoaderCalls(p) == SelectSeq(calls[p], LAMBDA e : e.op \in Loaders)

C12_CompleteConfig ==
  \A p \in procs :
    pc[p] # "idle" =>
      /\ svc.Status \in InitialStatuses
      /\ config[p] \in inputs.carriers
      /\ IF config[p].kind \in {"ConfigMap", "Secret"}
           THEN /\ Len(LoaderCalls(p)) = 1
                /\ calls[p][1].op =
                     (IF config[p].kind = "ConfigMap" THEN "FromConfigMap" ELSE "FromSecret")
                /\ calls[p][1].err = Nil =>
                     /\ calls[p][1].cfg.version = config[p].version
                     /\ calls[p][1].cfg.markers = <<>>
                     /\ Len(calls[p]) = 1 => (pc[p] = "getVersion" /\ c[p] = calls[p][1].cfg)
                /\ calls[p][1].err # Nil =>
                     /\ Done(p)
                     /\ result[p] = calls[p][1].err
                     /\ Len(calls[p]) = 1
           ELSE /\ Len(LoaderCalls(p)) = 0
                /\ Done(p)
                /\ result[p] = NoConfigErr

C12_Witness ==
  \E p \in procs :
    /\ config[p].kind = "Secret" /\ config[p].version = "1.21.0"
    /\ pc[p] = "getVersion"
    /\ c[p].version = "1.21.0"
    /\ calls[p][1].op = "FromSecret"

\* C13: the manifest generator is invoked at most once per attempt, only after
\* the transform-configuration calls of all n transformers have succeeded, and
\* with the config carrying the mutations of T1..Tn in that order; when it
\* fails no snapshot is taken, no transform-manifests call is made, nothing is
\* persisted, the second event is not emitted and nothing is committed.
C13_GenerateOnceAfterForwardPass ==
  \A p \in procs :
    /\ Len(Ops(p, "Generate")) <= 1
    /\ \A j \in 1..Len(calls[p]) :
         calls[p][j].op = "Generate" =>
           /\ OkBefore(p, "TransformConfig", j) = Len(generators)
           /\ calls[p][j].cfg.markers = generators
           /\ calls[p][j].cfg = c[p]
           /\ calls[p][j].err # Nil =>
                /\ Done(p) /\ j = Len(calls[p])
                /\ result[p] = calls[p][j].err
                /\ status[p] = "nil"
                /\ ~Called(p, "TransformManifests")
                /\ ~Called(p, "deployConfig")
                /\ ~Called(p, "EventSet")
                /\ ~Called(p, "commitConfigToStatus")
                /\ persisted.by # attempt[p]
                /\ committed.by # attempt[p]

C13_Witness ==
  \E p \in procs :
    /\ Done(p) /\ Len(calls[p]) > 0
    /\ LastCall(p).op = "Generate" /\ LastCall(p).err # Nil
    /\ Len(generators) >= 3
    /\ LastCall(p).cfg.markers = generators
    /\ LastCall(p).cfg.version = OtherVersion

\* C14: persistArtifacts (deployConfig) is invoked at most once per attempt,
\* only after the transform-manifests calls of all n transformers have
\* succeeded, and receives the snapshot as the reverse pass left it, without
\* the resolved version stamped on it: the stamp is written after persistence
\* has succeeded. When persistence fails the second event is not emitted and
\* nothing is committed.
C14_PersistOnceBeforeStamp ==
  \A p \in procs :
    /\ Len(Ops(p, "deployConfig")) <= 1
    /\ \A j \in 1..Len(calls[p]) :
         calls[p][j].op = "deployConfig" =>
           LET tms == Ops(p, "TransformManifests")
               base == IF Len(tms) = 0 THEN svc.Status ELSE tms[Len(tms)].st
               arg == calls[p][j].st IN
           /\ OkBefore(p, "TransformManifests", j) = Len(generators)
           /\ arg.markers = Rev(generators)
           /\ arg.Version \in {base.Version, OtherVersion}
           /\ pc[p] \in {"event2", "stamp"} => Deref(p) = arg
           /\ pc[p] = "commit" => Deref(p) = [arg EXCEPT !.Version = v[p]]
           /\ calls[p][j].err = Nil =>
                (persisted.by = attempt[p] => persisted.status = arg)
           /\ calls[p][j].err # Nil =>
                /\ Done(p) /\ j = Len(calls[p])
                /\ result[p] = calls[p][j].err
                /\ Deref(p) = arg
                /\ ~Called(p, "EventSet")
                /\ ~Called(p, "commitConfigToStatus")
                /\ persisted.by # attempt[p]
                /\ committed.by # attempt[p]

C14_Witness ==
  \E p \in procs :
    /\ pc[p] = "commit" /\ Len(generators) >= 2
    /\ persisted.by = attempt[p]
    /\ persisted.status.Version # v[p]
    /\ persisted.status.markers = Rev(generators)
    /\ snap[p].Version = v[p]
    /\ v[p] = "1.20.0"

\* C15: forward-pass mutations are not rolled back: when the
\* transform-configuration call of Tk fails, the abandoned config holds the
\* mutations of T1..Tk-1 in that order and not those of Tk..Tn, and no further
\* call is made on any transformer.
C15_NoRollback ==
  \A p \in procs : \A j \in 1..Len(calls[p]) :
    (calls[p][j].op = "TransformConfig" /\ calls[p][j].err # Nil) =>
      LET k == calls[p][j].t IN
      /\ c[p].markers = SubSeq(generators, 1, k - 1)
      /\ c[p] = calls[p][j].cfg
      /\ \A m \in 1..Len(calls[p]) :
           (m > j) => calls[p][m].op \notin {"NewTransformer", "TransformConfig", "TransformManifests"}
      /\ Gens(OkCalls(p, "TransformConfig")) = SubSeq(generators, 1, k - 1)

C15_Witness ==
  \E p \in procs :
    /\ Done(p) /\ Len(generators) >= 3 /\ Len(calls[p]) > 0
    /\ LastCall(p).op = "TransformConfig" /\ LastCall(p).err # Nil /\ LastCall(p).t = 2
    /\ c[p].markers = <<1>>
    /\ c[p].version = OtherVersion

\* C16: the 'new configuration detected' event is emitted exactly once iff
\* config resolution succeeds (also when the version read fails) and before any
\* transformer is constructed; the 'deployment set' event is emitted exactly
\* once iff persistence succeeds and before commitStatus is called, so an
\* attempt whose commitStatus fails has emitted it. Both carry the version v.
Index(p, op) == Min({j \in 1..Len(calls[p]) : calls[p][j].op = op})

C16_Events ==
  \A p \in procs :
    /\ Len(Ops(p, "EventDetected")) <= 1
    /\ Len(Ops(p, "EventSet")) <= 1
    /\ Called(p, "EventDetected") =>
         /\ Resolved(p)
         /\ Ops(p, "EventDetected")[1].ver = v[p]
         /\ Called(p, "NewTransformer") =>
              Index(p, "EventDetected") < Index(p, "NewTransformer")
    /\ (Resolved(p) /\ pc[p] \notin {"getVersion", "event1"}) => Called(p, "EventDetected")
    /\ Called(p, "EventSet") =>
         /\ Len(OkCalls(p, "deployConfig")) = 1
         /\ Index(p, "deployConfig") < Index(p, "EventSet")
         /\ Ops(p, "EventSet")[1].ver = v[p]
    /\ (Len(OkCalls(p, "deployConfig")) = 1 /\ pc[p] # "event2") => Called(p, "EventSet")
    /\ Called(p, "commitConfigToStatus") =>
         /\ Called(p, "EventSet")
         /\ Index(p, "EventSet") < Index(p, "commitConfigToStatus")

C16_Witness ==
  \E p \in procs :
    /\ Done(p) /\ result[p] \in Errs /\ VersionReadFailed(p)
    /\ LastCall(p).op = "commitConfigToStatus"
    /\ Called(p, "EventSet") /\ Called(p, "EventDetected")
    /\ Len(generators) >= 1

\* C17: two overlapping Deploy calls for one service are not serialized, so
\* the last persisted bundle may come from one attempt and the last committed
\* status from the other (C17_Witness); in every interleaving each attempt
\* keeps its own order (reverse pass after forward pass, persist before
\* commit) and uses only its own transformer instances, config, bundle and
\* snapshot.
C17_AttemptsIsolated ==
  \A p \in procs :
    /\ \A j \in 1..Len(calls[p]) :
         /\ calls[p][j].op = "TransformManifests" =>
              /\ OkBefore(p, "TransformConfig", j) = Len(generators)
              /\ calls[p][j].st.markers =
                   Gens(SelectSeq(SubSeq(calls[p], 1, j - 1),
                                  LAMBDA e : e.op = "TransformManifests"))
         /\ calls[p][j].op = "commitConfigToStatus" =>
              /\ OkBefore(p, "deployConfig", j) = 1
              /\ calls[p][j].st.markers = Gens(OkCalls(p, "TransformManifests"))
         /\ calls[p][j].op \in {"TransformConfig", "TransformManifests"} =>
              calls[p][j].inst \in Constructed(p)
    /\ \A q \in procs \ {p} :
         /\ Constructed(p) \cap Constructed(q) = {}
         /\ (pc[p] # "idle" /\ pc[q] # "idle") => attempt[p] # attempt[q]
    /\ c[p].markers = Gens(OkCalls(p, "TransformConfig"))
    /\ Resolved(p) => c[p].version \in {config[p].version, OtherVersion}
    /\ l[p].markers = Gens(OkCalls(p, "TransformManifests"))
    /\ Deref(p).markers = Gens(OkCalls(p, "TransformManifests"))
    /\ (pc[p] # "idle" /\ persisted.by = attempt[p]) =>
         /\ persisted.bundle = l[p]
         /\ persisted.status.markers = Deref(p).markers
    /\ (pc[p] # "idle" /\ committed.by = attempt[p]) => committed.status = Deref(p)

C17_Witness ==
  /\ procs = {1, 2}
  /\ \A p \in procs : Done(p) /\ result[p] = Nil
  /\ persisted.by # committed.by
  /\ persisted.by > 0 /\ committed.by > 0
  /\ config[1] # config[2]
  /\ committed.status.Version # v[CHOOSE p \in procs : attempt[p] = persisted.by]

\* C18: a failed attempt leaves nothing in the deployer that affects the next
\* one: the re-run constructs an instance of its own for every registration
\* entry, starts its snapshot from the declaration's unchanged status, and
\* commits status if every one of its steps succeeds.
ReRun(p) == pc[p] # "idle" /\ attempt[p] > 1 /\ prior.failed

C18_ReRunStartsFresh ==
  \A p \in procs :
    ReRun(p) =>
      /\ svc.Status \in InitialStatuses
      /\ Gens(Ops(p, "NewTransformer")) = SubSeq(generators, 1, Len(Ops(p, "NewTransformer")))
      /\ Len(transformers[p]) = Cardinality(Constructed(p))
      /\ \A k \in 1..Len(transformers[p]) :
           /\ transformers[p][k].inst \in Constructed(p)
           /\ transformers[p][k].gen = generators[k]
      /\ \A j \in 1..Len(calls[p]) :
           calls[p][j].op \in {"TransformConfig", "TransformManifests"} =>
             calls[p][j].inst \in Constructed(p)
      /\ \A j \in 1..Len(calls[p]) :
           (calls[p][j].op \in {"TransformManifests", "deployConfig"}
              /\ OkBefore(p, "TransformManifests", j) = 0) =>
             calls[p][j].st = svc.Status
      /\ pc[p] = "deepCopy" => c[p].markers = generators
      /\ (Done(p) /\ AllSucceeded(p)) =>
           /\ Called(p, "commitConfigToStatus")
           /\ Cardinality(Constructed(p)) = Len(generators)
           /\ LastCall(p).err = Nil =>
                /\ result[p] = Nil
                /\ committed.by = attempt[p]
                /\ committed.status.markers = Rev(generators)

C18_Witness ==
  \E p \in procs :
    /\ ReRun(p) /\ Done(p) /\ result[p] = Nil
    /\ prior.persisted /\ prior.failed
    /\ committed.by = attempt[p]
    /\ Len(generators) >= 2
    /\ instances = 2 * Len(generators)

\* C19: provided every collaborator call returns, every attempt ends in
\* exactly one of success or error after at most n constructions, n forward
\* calls, one generation, n reverse calls, one persistence and one commit; no
\* step is retried and no loop visits a transformer twice.
Injective(s) == \A j, k \in 1..Len(s) : s[j] = s[k] => j = k

C19_Counts ==
  \A p \in procs :
    LET n == Len(generators) IN
    /\ Len(Ops(p, "NewTransformer")) <= n
    /\ Len(Ops(p, "TransformConfig")) <= n
    /\ Len(Ops(p, "Generate")) <= 1
    /\ Len(Ops(p, "TransformManifests")) <= n
    /\ Len(Ops(p, "deployConfig")) <= 1
    /\ Len(Ops(p, "commitConfigToStatus")) <= 1
    /\ Len(LoaderCalls(p)) <= 1
    /\ Injective(Gens(Ops(p, "NewTransformer")))
    /\ Injective(Gens(Ops(p, "TransformConfig")))
    /\ Injective(Gens(Ops(p, "TransformManifests")))
    /\ \A j \in FailedSteps(p) : j = Len(calls[p])
    /\ Done(p) =>
         /\ result[p] \in {Nil, NoConfigErr} \cup Errs
         /\ result[p] = Nil <=> (Called(p, "commitConfigToStatus") /\ LastCall(p).err = Nil)
         /\ result[p] # Nil <=> (FailedSteps(p) # {} \/ ~Resolved(p))

C19_Terminates ==
  /\ []C19_Counts
  /\ \A p \in Procs : (pc[p] # "idle") ~> (pc[p] = "done")

C19_Witness ==
  \E p \in procs :
    /\ Done(p) /\ result[p] = Nil /\ Len(generators) >= 3
    /\ Len(calls[p]) = 3 * Len(generators) + 7

====
